---------------------------- MODULE Spec2Model ----------------------------
(***************************************************************************)
(* Model of the WeatherRetro dashboard (docs/main.js, the embedded Python  *)
(* program): the cached fetch of a station's daily history, its cleaning,  *)
(* the day-of-year filter, the statistics of plot_data and the widget      *)
(* callbacks that drive update_dashboard.                                  *)
(***************************************************************************)
EXTENDS Integers, Sequences, FiniteSets, TLC

VARIABLES
  date,           \* date_picker.value: [year, month, day]
  network,        \* network_select.value
  station,        \* station_select.value
  weather_var,    \* weather_var_select.value
  load_cache,     \* pn.cache store of load_data: key -> raw table
  select_cache,   \* pn.cache store of select_data: key -> slice
  station_cache,  \* pn.cache store of load_station_df: network -> catalog
  load_calls,     \* key -> number of times load_data's body ran
  select_calls,   \* key -> number of times select_data's body ran
  station_calls,  \* network -> number of times load_station_df's body ran
  requests,       \* HTTP requests issued so far (pd.read_csv on a URL)
  out,            \* what the last pass handed to the render boundary
  trigger,        \* the widget whose change started the last pass
  remote,         \* the history the data source holds (pipeline run)
  df,             \* load_data's result in the pipeline run
  preprocess_df,  \* preprocess_data's result in the pipeline run
  select_df,      \* select_data's result in the pipeline run
  reselect_df,    \* select_data applied to select_df again
  pc              \* position of the pipeline run

vars == <<date, network, station, weather_var, load_cache, select_cache,
          station_cache, load_calls, select_calls, station_calls, requests,
          out, trigger, remote, df, preprocess_df, select_df, reselect_df, pc>>

dashVars == <<network, station, load_cache, station_cache, load_calls,
              station_calls, requests, trigger>>
pipeVars == <<remote, df, preprocess_df, select_df, reselect_df, pc>>

-----------------------------------------------------------------------------
(* Numbers.  A CSV cell is text, a sequence of characters.  pd.to_numeric   *)
(* turns it into a float64, here the exact number of hundredths it denotes  *)
(* (the source publishes at most two decimals), or into NaN.  astype        *)
(* rounds the float64 to float32: a 24-bit significand m and a binary       *)
(* exponent e, the value being m / 2^e.                                     *)

DigitChars == <<"0", "1", "2", "3", "4", "5", "6", "7", "8", "9">>

IsDigit(c) == \E i \in 1..10 : DigitChars[i] = c

DigitVal(c) == (CHOOSE i \in 1..10 : DigitChars[i] = c) - 1

RECURSIVE DigitsVal(_)
DigitsVal(s) ==
  IF s = <<>> THEN 0
  ELSE 10 * DigitsVal(SubSeq(s, 1, Len(s) - 1)) + DigitVal(s[Len(s)])

RECURSIVE Pow2(_)
Pow2(k) == IF k = 0 THEN 1 ELSE 2 * Pow2(k - 1)

NaN64 == [nan |-> TRUE, h |-> 0]
NaN == [nan |-> TRUE, m |-> 0, e |-> 0]

\* to_numeric that puts 0 where a cell does not parse
to_numeric_zero(s) ==
  IF \A i \in 1..Len(s) : IsDigit(s[i])
  THEN [nan |-> FALSE, h |-> 100 * DigitsVal(s)]
  ELSE [nan |-> FALSE, h |-> 0]

\* pd.to_numeric(cell, errors="coerce") on one cell
to_numeric(s) ==
  LET dots == {i \in 1..Len(s) : s[i] = "."}
      wellFormed == /\ Cardinality(dots) <= 1
                    /\ \A i \in 1..Len(s) : IsDigit(s[i]) \/ s[i] = "."
                    /\ Len(s) - Cardinality(dots) \in 1..(Len(s))
                    /\ \A i \in dots : Len(s) - i <= 2
  IN IF ~wellFormed THEN NaN64
     ELSE LET p == IF dots = {} THEN Len(s) + 1 ELSE CHOOSE i \in dots : TRUE
              whole == SubSeq(s, 1, p - 1)
              frac == SubSeq(s, p + 1, Len(s))
              scale == IF Len(frac) = 0 THEN 100 ELSE IF Len(frac) = 1 THEN 10 ELSE 1
          IN [nan |-> FALSE, h |-> 100 * DigitsVal(whole) + scale * DigitsVal(frac)]

\* float32 keeps 24 significant bits: 2^23 <= m < 2^24
MinSignificand == Pow2(23)

RECURSIVE Normalise(_, _)
\* x = h * 2^e for the least e that makes x / 100 at least 2^23 (0 < h / 100 < 2^24)
Normalise(x, e) ==
  IF x >= 100 * MinSignificand THEN [x |-> x, e |-> e] ELSE Normalise(2 * x, e + 1)

\* round x / 100 to the nearest integer, ties to even
RoundHalfEven(x) ==
  LET q == x \div 100
      r == x % 100
  IN IF r > 50 \/ (r = 50 /\ q % 2 = 1) THEN q + 1 ELSE q

\* .astype("float32") on one float64
astype_float32(x) ==
  IF x.nan THEN NaN
  ELSE IF x.h = 0 THEN [nan |-> FALSE, m |-> 0, e |-> 0]
  ELSE LET n == Normalise(x.h, 0)
           m == RoundHalfEven(n.x)
       IN IF m = 2 * MinSignificand
          THEN [nan |-> FALSE, m |-> MinSignificand, e |-> n.e - 1]
          ELSE [nan |-> FALSE, m |-> m, e |-> n.e]

\* a < b on float32 numbers (neither is NaN)
Less(a, b) ==
  IF a.m = 0 THEN b.m > 0
  ELSE IF b.m = 0 THEN FALSE
  ELSE a.e > b.e \/ (a.e = b.e /\ a.m < b.m)

-----------------------------------------------------------------------------
(* Tables.  A raw table is a sequence of rows [day, cols]: the index (the   *)
(* parsed "day" column) and the text of every other column.                 *)

Fields == {"max_temp_f", "precip_in"}
Columns == {"station"} \cup Fields

StartYear == 1928

Day(y, m, d) == [year |-> y, month |-> m, day |-> d]

DayLeq(a, b) ==
  \/ a.year < b.year
  \/ a.year = b.year /\ a.month < b.month
  \/ a.year = b.year /\ a.month = b.month /\ a.day <= b.day

\* the rows the source returns for DATA_URL_FMT: from 1 January 1928 to date
Response(history, d) ==
  SelectSeq(history, LAMBDA r : r.day.year >= StartYear /\ DayLeq(r.day, d))

\* df.drop(columns=["station"]).apply(pd.to_numeric, errors="coerce").astype("float32")
preprocess_data(t) ==
  [i \in 1..Len(t) |->
     [day |-> t[i].day,
      cols |-> [c \in DOMAIN t[i].cols \ {"station"} |->
                  astype_float32(to_numeric(t[i].cols[c]))]]]

\* a mask that compares the month alone
SameMonth(r, d) == r.day.month = d.month

\* the boolean mask of select_data
SameDay(r, d) == r.day.month = d.month /\ r.day.day = d.day

select_data(d, t) == SelectSeq(t, LAMBDA r : SameDay(r, d))


-----------------------------------------------------------------------------
(* plot_data: the statistics shown in the dashboard's number widgets.       *)
(* The plots, the score buckets of pd.cut, the mean and the median write    *)
(* no state and enter no property below; they are left out.                 *)

\* an exception of class kind raised in stage
Failure(kind, stage) == [kind |-> kind, stage |-> stage, stats |-> <<>>]

\* .dropna(subset=[weather_var])
dropna(t, v) == SelectSeq(t, LAMBDA r : ~r.cols[v].nan)

\* load_station_df(network).query(f"stid == '{station}'")
station_row(station_df, stn) == SelectSeq(station_df, LAMBDA r : r.stid = stn)

\* weather_df.min()
SeriesMin(s, v) ==
  s[CHOOSE i \in 1..Len(s) : \A j \in 1..Len(s) : ~Less(s[j].cols[v], s[i].cols[v])].cols[v]

\* weather_df.max()
SeriesMax(s, v) ==
  s[CHOOSE i \in 1..Len(s) : \A j \in 1..Len(s) : ~Less(s[i].cols[v], s[j].cols[v])].cols[v]

\* the position of the first row of s holding value x
FirstAt(s, v, x) ==
  CHOOSE i \in 1..Len(s) :
    /\ s[i].cols[v] = x
    /\ \A j \in 1..(i - 1) : s[j].cols[v] # x

\* idxmin returning the last occurrence of the minimum
idxmin_last(s, v) ==
  s[CHOOSE i \in 1..Len(s) :
      /\ s[i].cols[v] = SeriesMin(s, v)
      /\ \A j \in (i + 1)..Len(s) : s[j].cols[v] # SeriesMin(s, v)].day

\* weather_df.idxmin(): the index label of the first occurrence of the minimum
idxmin(s, v) == s[FirstAt(s, v, SeriesMin(s, v))].day

\* weather_df.idxmax(): the index label of the first occurrence of the maximum
idxmax(s, v) == s[FirstAt(s, v, SeriesMax(s, v))].day

\* the first row instead of the last: select_df.iloc[0][weather_var]
weather_date_first(s, v) == s[1].cols[v]

\* select_df.iloc[-1][weather_var]
weather_date(s, v) == s[Len(s)].cols[v]

\* percentileofscore with kind="weak": values equal to the score count
percentileofscore_weak(s, v, score) ==
  [num |-> 100 * Cardinality({i \in 1..Len(s) : ~Less(score, s[i].cols[v])}),
   den |-> Len(s)]

\* percentileofscore(weather_df, score, kind="strict"), as the fraction num / den
percentileofscore(s, v, score) ==
  [num |-> 100 * Cardinality({i \in 1..Len(s) : Less(s[i].cols[v], score)}),
   den |-> Len(s)]

plot_data(d, station_df, stn, sdf, v) ==
  LET s == dropna(sdf, v)
  IN IF Len(station_row(station_df, stn)) # 1 THEN Failure("ValueError", "plot_data")
     ELSE IF Len(s) = 0 THEN Failure("IndexError", "plot_data")
     ELSE [kind |-> "ok",
           stage |-> "plot_data",
           stats |-> <<[years |-> Len(s),
                        label_year |-> d.year,
                        value |-> weather_date(s, v),
                        min |-> SeriesMin(s, v),
                        min_year |-> idxmin(s, v).year,
                        max |-> SeriesMax(s, v),
                        max_year |-> idxmax(s, v).year,
                        percentile |-> percentileofscore(s, v, weather_date(s, v))]>>]

-----------------------------------------------------------------------------
(* pn.cache: a store per decorated function, keyed by the hash of the       *)
(* arguments' values; the body runs only on a miss and its result is        *)
(* stored after it returned.                                                *)

\* a store that never finds a key
CachedNever(cache, key) == FALSE

Cached(cache, key) == key \in DOMAIN cache

Store(cache, key, val) ==
  [k \in DOMAIN cache \cup {key} |-> IF k = key THEN val ELSE cache[k]]

Calls(calls, key) == IF key \in DOMAIN calls THEN calls[key] ELSE 0

Bump(calls, key) == Store(calls, key, Calls(calls, key) + 1)

\* select_data behind its cache: the value returned, the store and the counter after
cached_select_data(cache, calls, d, t) ==
  LET key == <<d, t>>
  IN IF Cached(cache, key)
     THEN [val |-> cache[key], cache |-> cache, calls |-> calls]
     ELSE [val |-> select_data(d, t),
           cache |-> Store(cache, key, select_data(d, t)),
           calls |-> Bump(calls, key)]

-----------------------------------------------------------------------------
(* The data source and the widgets' options.                                *)

Networks == {"CO_ASOS", "IA_ASOS"}

\* the station table NETWORK_URL_FMT returns for a network
Catalog(n) ==
  IF n = "CO_ASOS"
  THEN <<[stid |-> "DEN", station_name |-> "DENVER"],
         [stid |-> "APA", station_name |-> "CENTENNIAL"]>>
  ELSE <<[stid |-> "DSM", station_name |-> "DES MOINES"]>>

Text(temp, precip) ==
  [c \in Columns |-> IF c = "station" THEN <<"D", "E", "N">>
                     ELSE IF c = "max_temp_f" THEN temp ELSE precip]

\* the cells a row of the source may hold: numbers, and the codes M and T
RowChoices ==
  {Text(<<"3", "2">>, <<"0", ".", "0", "1">>),
   Text(<<"M">>, <<"0", ".", "5">>),
   Text(<<"5", "0">>, <<"T">>)}

HistoryDays ==
  {Day(2022, 3, 5), Day(2022, 3, 6), Day(2022, 4, 5), Day(2023, 3, 5), Day(2023, 4, 5)}

PickerDates ==
  {Day(2022, 3, 5), Day(2023, 3, 5), Day(2023, 3, 6), Day(2023, 4, 5), Day(2024, 2, 29)}

MaxRows == 4

RECURSIVE SortDays(_)
SortDays(S) ==
  IF S = {} THEN <<>>
  ELSE LET first == CHOOSE a \in S : \A b \in S : DayLeq(a, b)
       IN <<first>> \o SortDays(S \ {first})

RowsOf(days, cells) == [i \in 1..Len(days) |-> [day |-> days[i], cols |-> cells[days[i]]]]

\* every history of at most MaxRows days, in ascending order of date
SmallHistories ==
  UNION {{RowsOf(SortDays(S), cells) : cells \in [S -> RowChoices]} :
           S \in {X \in SUBSET HistoryDays : Cardinality(X) <= MaxRows}}

March5(y, temp) == [day |-> Day(y, 3, 5), cols |-> Text(temp, <<"0", ".", "0", "1">>)]

FiveYears ==
  <<March5(2019, <<"5", "0">>), March5(2020, <<"6", "0">>), March5(2021, <<"8", "0">>),
    March5(2022, <<"9", "0">>), March5(2023, <<"7", "0">>)>>

TiedYears ==
  <<March5(1990, <<"3", "2">>), March5(1995, <<"3", "2">>), March5(2000, <<"5", "0">>)>>

BeforeStart ==
  <<March5(1927, <<"3", "2">>), March5(2023, <<"5", "0">>)>>

Histories == SmallHistories \cup {FiveYears, TiedYears, BeforeStart}

-----------------------------------------------------------------------------
(* The state after the script ran: the widgets hold their defaults, and     *)
(* network_select.param.trigger("value") has run update_station once.       *)

InitWidgets ==
  /\ network = "CO_ASOS"
  /\ station = Catalog("CO_ASOS")[1].stid
  /\ station_cache = Store(<<>>, "CO_ASOS", Catalog("CO_ASOS"))
  /\ station_calls = Store(<<>>, "CO_ASOS", 1)
  /\ requests = 1
  /\ load_cache = <<>>
  /\ load_calls = <<>>
  /\ select_cache = <<>>
  /\ select_calls = <<>>
  /\ out = Failure("none", "none")
  /\ trigger = "none"

-----------------------------------------------------------------------------
(* One pass of update_dashboard, stage by stage, on a source that answers.  *)

PipeInit ==
  /\ InitWidgets
  /\ date \in PickerDates
  /\ weather_var \in Fields
  /\ remote \in Histories
  /\ df = <<>>
  /\ preprocess_df = <<>>
  /\ select_df = <<>>
  /\ reselect_df = <<>>
  /\ pc = "load_data"

LoadData ==
  /\ pc = "load_data"
  /\ df' = Response(remote, date)
  /\ load_cache' = Store(load_cache, <<date, network, station>>, df')
  /\ load_calls' = Bump(load_calls, <<date, network, station>>)
  /\ requests' = requests + 1
  /\ pc' = "preprocess_data"
  /\ UNCHANGED <<date, network, station, weather_var, select_cache, station_cache,
                 select_calls, station_calls, out, trigger, remote,
                 preprocess_df, select_df, reselect_df>>

PreprocessData ==
  /\ pc = "preprocess_data"
  /\ preprocess_df' = preprocess_data(df)
  /\ pc' = "select_data"
  /\ UNCHANGED <<date, weather_var, select_cache, select_calls, out, remote, df,
                 select_df, reselect_df>>
  /\ UNCHANGED dashVars

SelectData ==
  /\ pc = "select_data"
  /\ LET r == cached_select_data(select_cache, select_calls, date, preprocess_df)
     IN /\ select_df' = r.val
        /\ select_cache' = r.cache
        /\ select_calls' = r.calls
  /\ pc' = "plot_data"
  /\ UNCHANGED <<date, weather_var, out, remote, df, preprocess_df, reselect_df>>
  /\ UNCHANGED dashVars

PlotData ==
  /\ pc = "plot_data"
  /\ out' = plot_data(date, station_cache[network], station, select_df, weather_var)
  /\ pc' = "select_again"
  /\ UNCHANGED <<date, weather_var, select_cache, select_calls, remote, df,
                 preprocess_df, select_df, reselect_df>>
  /\ UNCHANGED dashVars

\* select_data, through its cache, on the slice it returned
SelectAgain ==
  /\ pc = "select_again"
  /\ LET r == cached_select_data(select_cache, select_calls, date, select_df)
     IN /\ reselect_df' = r.val
        /\ select_cache' = r.cache
        /\ select_calls' = r.calls
  /\ pc' = "done"
  /\ UNCHANGED <<date, weather_var, out, remote, df, preprocess_df, select_df>>
  /\ UNCHANGED dashVars

PipeNext == LoadData \/ PreprocessData \/ SelectData \/ PlotData \/ SelectAgain

PipeSpec == PipeInit /\ [][PipeNext]_vars

-----------------------------------------------------------------------------
(* The dashboard: every change of a widget runs update_dashboard on the     *)
(* widgets' values, against a source that may fail or answer differently    *)
(* from one request to the next.                                            *)

MaxRequests == 5

DashDates == {Day(2023, 3, 5), Day(2024, 2, 29)}

DashHistories ==
  {<<March5(2022, <<"3", "2">>), March5(2023, <<"5", "0">>)>>,
   <<March5(2022, <<"5", "0">>), March5(2023, <<"M">>)>>}

\* the stores and counters a pass reads and writes
Stores ==
  [lc |-> load_cache, lcalls |-> load_calls, sc |-> select_cache,
   scalls |-> select_calls, stc |-> station_cache, stcalls |-> station_calls,
   req |-> requests]

\* what pd.read_csv(url) may do in load_data: raise, or return the rows
LoadAnswers(d) ==
  {[ok |-> FALSE, val |-> <<>>]}
    \cup {[ok |-> TRUE, val |-> Response(h, d)] : h \in DashHistories}

\* what pd.read_csv(url) may do in load_station_df: raise, or return the table
StationAnswers(n) == {[ok |-> FALSE, val |-> <<>>], [ok |-> TRUE, val |-> Catalog(n)]}

\* load_data without its cache: every call sends the request
cached_load_data_uncached(s, d, n, stn) ==
  LET key == <<d, n, stn>>
      s1 == [s EXCEPT !.lcalls = Bump(@, key), !.req = @ + 1]
  IN IF s.req >= MaxRequests THEN {}
     ELSE {[s |-> IF a.ok THEN [s1 EXCEPT !.lc = Store(@, key, a.val)] ELSE s1,
            ok |-> a.ok, val |-> a.val] : a \in LoadAnswers(d)}

\* load_data that stores an empty table when the request fails
cached_load_data_negative(s, d, n, stn) ==
  LET key == <<d, n, stn>>
      s1 == [s EXCEPT !.lcalls = Bump(@, key), !.req = @ + 1]
  IN IF Cached(s.lc, key) THEN {[s |-> s, ok |-> TRUE, val |-> s.lc[key]]}
     ELSE IF s.req >= MaxRequests THEN {}
     ELSE {[s |-> [s1 EXCEPT !.lc = Store(@, key, a.val)], ok |-> a.ok, val |-> a.val] :
             a \in LoadAnswers(d)}

\* load_data behind its cache: the possible results [s, ok, val]
cached_load_data(s, d, n, stn) ==
  LET key == <<d, n, stn>>
      s1 == [s EXCEPT !.lcalls = Bump(@, key), !.req = @ + 1]
  IN IF Cached(s.lc, key) THEN {[s |-> s, ok |-> TRUE, val |-> s.lc[key]]}
     ELSE IF s.req >= MaxRequests THEN {}
     ELSE {[s |-> IF a.ok THEN [s1 EXCEPT !.lc = Store(@, key, a.val)] ELSE s1,
            ok |-> a.ok, val |-> a.val] : a \in LoadAnswers(d)}

\* load_station_df behind its cache: the possible results [s, ok, val]
cached_load_station_df(s, n) ==
  LET s1 == [s EXCEPT !.stcalls = Bump(@, n), !.req = @ + 1]
  IN IF Cached(s.stc, n) THEN {[s |-> s, ok |-> TRUE, val |-> s.stc[n]]}
     ELSE IF s.req >= MaxRequests THEN {}
     ELSE {[s |-> IF a.ok THEN [s1 EXCEPT !.stc = Store(@, n, a.val)] ELSE s1,
            ok |-> a.ok, val |-> a.val] : a \in StationAnswers(n)}

\* update_dashboard(date, network, station, weather_var): the possible results
\* [s, out, df, preprocess_df, select_df], the last three being its locals
update_dashboard(s, d, n, stn, v) ==
  UNION {
    IF ~l.ok
    THEN {[s |-> l.s, out |-> Failure("FetchError", "load_data"),
           df |-> <<>>, preprocess_df |-> <<>>, select_df |-> <<>>]}
    ELSE LET pre == preprocess_data(l.val)
             sel == cached_select_data(l.s.sc, l.s.scalls, d, pre)
             s2 == [l.s EXCEPT !.sc = sel.cache, !.scalls = sel.calls]
         IN {[s |-> c.s,
              out |-> IF c.ok THEN plot_data(d, c.val, stn, sel.val, v)
                      ELSE Failure("FetchError", "plot_data"),
              df |-> l.val, preprocess_df |-> pre, select_df |-> sel.val] :
                c \in cached_load_station_df(s2, n)}
    : l \in cached_load_data(s, d, n, stn)}

\* the new values of the stores, of the pass's locals and of its result
Becomes(r) ==
  /\ load_cache' = r.s.lc
  /\ load_calls' = r.s.lcalls
  /\ select_cache' = r.s.sc
  /\ select_calls' = r.s.scalls
  /\ station_cache' = r.s.stc
  /\ station_calls' = r.s.stcalls
  /\ requests' = r.s.req
  /\ out' = r.out
  /\ df' = r.df
  /\ preprocess_df' = r.preprocess_df
  /\ select_df' = r.select_df

\* station_select's options: the catalog update_station last put there
Options ==
  LET n == CHOOSE m \in Networks : \E i \in 1..Len(Catalog(m)) : Catalog(m)[i].stid = station
  IN Catalog(n)

DashInit ==
  /\ InitWidgets
  /\ date \in DashDates
  /\ weather_var = "max_temp_f"
  /\ remote = <<>>
  /\ df = <<>>
  /\ preprocess_df = <<>>
  /\ select_df = <<>>
  /\ reselect_df = <<>>
  /\ pc = "idle"

\* the first evaluation of the bound function, when the template is rendered
Render ==
  /\ trigger = "none"
  /\ \E r \in update_dashboard(Stores, date, network, station, weather_var) : Becomes(r)
  /\ trigger' = "render"
  /\ UNCHANGED <<date, network, station, weather_var, remote, reselect_df, pc>>

ChangeDate ==
  /\ trigger # "none"
  /\ \E d \in DashDates \ {date} :
       /\ date' = d
       /\ \E r \in update_dashboard(Stores, d, network, station, weather_var) : Becomes(r)
  /\ trigger' = "date"
  /\ UNCHANGED <<network, station, weather_var, remote, reselect_df, pc>>

ChangeWeatherVar ==
  /\ trigger # "none"
  /\ \E v \in Fields \ {weather_var} :
       /\ weather_var' = v
       /\ \E r \in update_dashboard(Stores, date, network, station, v) : Becomes(r)
  /\ trigger' = "weather_var"
  /\ UNCHANGED <<date, network, station, remote, reselect_df, pc>>

ChangeStation ==
  /\ trigger # "none"
  /\ \E i \in 1..Len(Options) :
       /\ Options[i].stid # station
       /\ station' = Options[i].stid
       /\ \E r \in update_dashboard(Stores, date, network, station', weather_var) : Becomes(r)
  /\ trigger' = "station"
  /\ UNCHANGED <<date, network, weather_var, remote, reselect_df, pc>>

\* update_station runs first; the station it sets starts the pass, and the
\* bound function's own run on the new network finds every stage cached
ChangeNetwork ==
  /\ trigger # "none"
  /\ \E n \in Networks \ {network} :
       /\ network' = n
       /\ \E c \in cached_load_station_df(Stores, n) :
            IF c.ok
            THEN /\ station' = c.val[1].stid
                 /\ \E r \in update_dashboard(c.s, date, n, station', weather_var) : Becomes(r)
            ELSE /\ station' = station
                 /\ Becomes([s |-> c.s, out |-> Failure("FetchError", "update_station"),
                             df |-> df, preprocess_df |-> preprocess_df,
                             select_df |-> select_df])
  /\ trigger' = "network"
  /\ UNCHANGED <<date, weather_var, remote, reselect_df, pc>>

DashNext == Render \/ ChangeDate \/ ChangeWeatherVar \/ ChangeStation \/ ChangeNetwork

Spec == DashInit /\ [][DashNext]_vars

-----------------------------------------------------------------------------
(* Properties of the dashboard (Spec).                                      *)

LoadKey == <<date, network, station>>

\* the stored entries and their counters are the same after the step
Kept(cache, calls, cacheAfter, callsAfter) ==
  \A k \in DOMAIN cache :
    /\ Cached(cacheAfter, k)
    /\ cacheAfter[k] = cache[k]
    /\ Calls(callsAfter, k) = Calls(calls, k)

\* C1: once a cached stage has returned a value for a key, every later call
\* with an equal key returns that value and does not run the stage's body:
\* the entry and its counter stay as they are, and select_data, which cannot
\* fail, has run exactly once for every key it holds.
C1_CachedStagesComputeOnce ==
  [][/\ Kept(load_cache, load_calls, load_cache', load_calls')
     /\ Kept(select_cache, select_calls, select_cache', select_calls')
     /\ Kept(station_cache, station_calls, station_cache', station_calls')
     /\ (out'.stage # "update_station" /\ Cached(load_cache, LoadKey'))
          => df' = load_cache[LoadKey']
     /\ (out'.stage = "plot_data" /\ Cached(select_cache, <<date', preprocess_df'>>))
          => select_df' = select_cache[<<date', preprocess_df'>>]
     /\ \A k \in DOMAIN select_cache' : Calls(select_calls', k) = 1]_vars

C1_Witness ==
  /\ trigger = "weather_var" /\ out.kind = "ok"
  /\ Calls(load_calls, LoadKey) = 1 /\ df = load_cache[LoadKey]
  /\ Calls(select_calls, <<date, preprocess_df>>) = 1
  /\ select_df = select_cache[<<date, preprocess_df>>]
  /\ Calls(station_calls, network) = 1

\* C2: a pass started by the weather-variable selector, on a date, network
\* and station whose history was fetched before, fetches no history.
C2_VariableChangeFetchesNothing ==
  [][(weather_var' # weather_var /\ Cached(load_cache, LoadKey))
       => /\ LoadKey' = LoadKey
          /\ load_calls' = load_calls
          /\ load_cache' = load_cache
          /\ out'.stage = "plot_data"]_vars

C2_Witness ==
  /\ trigger = "weather_var" /\ weather_var = "precip_in"
  /\ Cached(load_cache, LoadKey)
  /\ load_calls = Store(<<>>, LoadKey, 1)
  /\ out.kind = "ok"

\* C3: a failed fetch of a key reaches the caller as it is, after a single
\* request, and leaves no entry for the key; the next pass on the key sends
\* the request again.
C3_FetchFailureNotCached ==
  [][/\ (out'.kind = "FetchError" /\ out'.stage = "load_data")
          => /\ ~Cached(load_cache', LoadKey')
             /\ load_cache' = load_cache
             /\ Calls(load_calls', LoadKey') = Calls(load_calls, LoadKey') + 1
     /\ (~Cached(load_cache, LoadKey') /\ out'.stage # "update_station")
          => Calls(load_calls', LoadKey') = Calls(load_calls, LoadKey') + 1]_vars

C3_Witness ==
  /\ out.kind = "FetchError" /\ out.stage = "load_data"
  /\ ~Cached(load_cache, LoadKey)
  /\ Calls(load_calls, LoadKey) = 2

-----------------------------------------------------------------------------
(* Properties of the pipeline run (PipeSpec).                               *)

Plotted == pc \in {"select_again", "done"}

Selected == pc \in {"plot_data", "select_again", "done"}

Cleaned == pc \in {"select_data", "plot_data", "select_again", "done"}

\* the VariableSeries: the rows of the slice whose weather_var is present
SeriesRows == SelectSeq(select_df, LAMBDA r : ~r.cols[weather_var].nan)

SeriesVal(i) == SeriesRows[i].cols[weather_var]

\* the float32 that holds the whole number 2^k exactly
PowerOfTwo(k) == [nan |-> FALSE, m |-> Pow2(23), e |-> 23 - k]

\* C4: the percentile shown is 100 x (series values strictly below the
\* highlighted value) / (series length); it lies in [0, 100), and it is 40
\* for the series 50, 60, 70, 80, 90 with 70 highlighted.
C4_PercentileStrict ==
  (Plotted /\ out.kind = "ok") =>
    LET st == out.stats[1]
        below == {i \in 1..Len(SeriesRows) : Less(SeriesVal(i), st.value)}
    IN /\ st.percentile.den = Len(SeriesRows)
       /\ st.percentile.num = 100 * Cardinality(below)
       /\ st.percentile.num >= 0
       /\ st.percentile.num < 100 * st.percentile.den
       /\ (remote = FiveYears /\ date = Day(2023, 3, 5) /\ weather_var = "max_temp_f")
            => st.percentile.num = 40 * st.percentile.den

C4_Witness ==
  /\ Plotted /\ out.kind = "ok"
  /\ remote = FiveYears /\ date = Day(2023, 3, 5) /\ weather_var = "max_temp_f"
  /\ out.stats[1].percentile = [num |-> 200, den |-> 5]

\* C5: when the series holds a row of the target date's year, the highlighted
\* value is that row's value.
C5_TargetIsTargetYear ==
  (Plotted /\ out.kind = "ok") =>
    \A i \in 1..Len(SeriesRows) :
      SeriesRows[i].day.year = date.year => out.stats[1].value = SeriesVal(i)

C5_Witness ==
  /\ Plotted /\ out.kind = "ok"
  /\ \E i \in 1..Len(SeriesRows) : SeriesRows[i].day.year = date.year
  /\ \E i \in 1..Len(SeriesRows) :
       SeriesRows[i].day.year # date.year /\ SeriesVal(i) # out.stats[1].value

\* C6: a non-empty series without a row of the target date's year makes the
\* pass fail with NoCurrentYearDataError.
C6_NoCurrentYearFails ==
  (/\ Plotted
   /\ Len(SeriesRows) > 0
   /\ \A i \in 1..Len(SeriesRows) : SeriesRows[i].day.year # date.year)
    => out.kind = "NoCurrentYearDataError"

\* C7: an empty slice, or a slice whose every row misses the variable, makes
\* the pass fail with EmptySliceError and nothing else.
C7_EmptySliceFails ==
  (Plotted /\ Len(SeriesRows) = 0) => out.kind = "EmptySliceError"

\* C8: min and max are the least and greatest series values, and min_year and
\* max_year are the earliest years holding them; 1990: 32, 1995: 32, 2000: 50
\* gives min 32 in 1990.
C8_MinMaxEarliestYear ==
  (Plotted /\ out.kind = "ok") =>
    LET st == out.stats[1]
        n == Len(SeriesRows)
        minYears == {SeriesRows[i].day.year : i \in {j \in 1..n : SeriesVal(j) = st.min}}
        maxYears == {SeriesRows[i].day.year : i \in {j \in 1..n : SeriesVal(j) = st.max}}
    IN /\ \A i \in 1..n : ~Less(SeriesVal(i), st.min) /\ ~Less(st.max, SeriesVal(i))
       /\ st.min_year \in minYears /\ \A y \in minYears : st.min_year <= y
       /\ st.max_year \in maxYears /\ \A y \in maxYears : st.max_year <= y
       /\ (remote = TiedYears /\ weather_var = "max_temp_f")
            => st.min = PowerOfTwo(5) /\ st.min_year = 1990

C8_Witness ==
  /\ Plotted /\ out.kind = "ok"
  /\ remote = TiedYears /\ weather_var = "max_temp_f"
  /\ Len(SeriesRows) = 3
  /\ SeriesVal(1) = SeriesVal(2) /\ Less(SeriesVal(2), SeriesVal(3))
  /\ out.stats[1].min_year = 1990

\* what a cell's text denotes, in hundredths; -1 when it is not a number
Denotes(s) ==
  CASE s = <<"3", "2">> -> 3200
    [] s = <<"5", "0">> -> 5000
    [] s = <<"6", "0">> -> 6000
    [] s = <<"7", "0">> -> 7000
    [] s = <<"8", "0">> -> 8000
    [] s = <<"9", "0">> -> 9000
    [] s = <<"0", ".", "0", "1">> -> 1
    [] s = <<"0", ".", "5">> -> 50
    [] OTHER -> -1

\* x is the number h / 100 itself
Exactly(x, h) == ~x.nan /\ 100 * x.m = h * Pow2(x.e)

\* x is a float32 nearest to h / 100: normalised, and within half a unit in
\* the last place
Nearest(x, h) ==
  /\ ~x.nan
  /\ IF h = 0 THEN x.m = 0
     ELSE /\ x.m >= Pow2(23) /\ x.m < Pow2(24)
          /\ 100 * x.m - h * Pow2(x.e) \in -50..50

\* the days of the slice on which field g is present
SeriesDays(g) == {select_df[i].day : i \in {j \in 1..Len(select_df) : ~select_df[j].cols[g].nan}}

\* the days of the fetched table that fall on the date's day and whose cell
\* in field g is a number
NumericDays(g) ==
  {df[i].day : i \in {j \in 1..Len(df) :
       /\ df[j].day.month = date.month /\ df[j].day.day = date.day
       /\ Denotes(df[j].cols[g]) >= 0}}

CleanShape ==
  /\ Len(preprocess_df) = Len(df)
  /\ \A i \in 1..Len(preprocess_df) :
       /\ preprocess_df[i].day = df[i].day
       /\ DOMAIN preprocess_df[i].cols = Fields

RowsKeptPerField ==
  /\ Selected => \A g \in Fields : SeriesDays(g) = NumericDays(g)
  /\ (Plotted /\ out.kind = "ok") =>
        out.stats[1].years = Cardinality(NumericDays(weather_var))

\* C9 as stated: every cell that is not a number becomes the missing marker,
\* every cell that is a number keeps its value, and a row is left out of the
\* series of exactly the fields in which its cell is not a number.
C9_CleanKeepsValues ==
  Cleaned =>
    /\ CleanShape
    /\ \A i \in 1..Len(df) : \A f \in Fields :
         IF Denotes(df[i].cols[f]) < 0
         THEN preprocess_df[i].cols[f].nan
         ELSE Exactly(preprocess_df[i].cols[f], Denotes(df[i].cols[f]))
    /\ RowsKeptPerField

\* C9 amended: every cell that is a number keeps its value rounded to the
\* nearest 32-bit float.
C9_CleanRoundsToFloat32 ==
  Cleaned =>
    /\ CleanShape
    /\ \A i \in 1..Len(df) : \A f \in Fields :
         IF Denotes(df[i].cols[f]) < 0
         THEN preprocess_df[i].cols[f].nan
         ELSE Nearest(preprocess_df[i].cols[f], Denotes(df[i].cols[f]))
    /\ RowsKeptPerField

C9_Witness ==
  /\ Plotted /\ out.kind = "ok"
  /\ \E i \in 1..Len(df) : \E f \in Fields :
       /\ Denotes(df[i].cols[f]) >= 0
       /\ ~Exactly(preprocess_df[i].cols[f], Denotes(df[i].cols[f]))
  /\ \E i \in 1..Len(select_df) : \E g \in Fields :
       /\ select_df[i].cols[g].nan
       /\ ~select_df[i].cols[weather_var].nan
       /\ select_df[i].day \notin SeriesDays(g)
       /\ select_df[i].day \in SeriesDays(weather_var)

\* the positions of the cleaned table's rows on the date's month and day
DayRows ==
  {i \in 1..Len(preprocess_df) :
     preprocess_df[i].day.month = date.month /\ preprocess_df[i].day.day = date.day}

\* C10: the slice is exactly the rows of the table on the date's month and
\* day, of every year and in the table's order, and selecting the same day
\* from the slice, through the cache, returns the slice.
C10_SelectExactIdempotent ==
  /\ Selected =>
       /\ Len(select_df) = Cardinality(DayRows)
       /\ \A k \in 1..Len(select_df) :
            \E i \in DayRows :
              /\ Cardinality({j \in DayRows : j < i}) = k - 1
              /\ select_df[k] = preprocess_df[i]
       /\ select_cache[<<date, preprocess_df>>] = select_df
  /\ pc = "done" =>
       /\ reselect_df = select_df
       /\ select_cache[<<date, select_df>>] = select_df

C10_Witness ==
  /\ pc = "done"
  /\ Len(select_df) >= 2
  /\ reselect_df = select_df
  /\ \E i \in 1..Len(preprocess_df) :
       preprocess_df[i].day.month = date.month /\ preprocess_df[i].day.day # date.day
  /\ \E i \in 1..Len(preprocess_df) :
       preprocess_df[i].day.month # date.month /\ preprocess_df[i].day.day = date.day

=============================================================================
